---- MODULE Spec2Model ----
(***************************************************************************)
(* Shapely: daily country-guessing game.  Model of src/unnamed/part_000    *)
(* (utils: day index, puzzle selection; App: round state machine, rollover *)
(* polling, persistence) and src/types.ts.                                 *)
(*                                                                         *)
(* Strings are sequences of one-character strings, so that toLowerCase,    *)
(* date formatting and date parsing are computed and not assumed.          *)
(* Date.getTime() values are pairs <<q, r>> standing for                   *)
(* q * MS_PER_DAY + r milliseconds (0 <= r < MS_PER_DAY): the millisecond  *)
(* counts themselves exceed the integers TLC can represent.                *)
(***************************************************************************)
EXTENDS Integers, Sequences, FiniteSets, TLC

(***************************************************************************)
(* Bounds of the model                                                     *)
(***************************************************************************)
\* number of reference-timezone midnights a behaviour of the session may cross
MaxTicks == 2
\* Math.random() is modelled as r / RandDen for r in 0 .. RandDen - 1
RandDen == 4
\* the pure day-index checks cover the calendar dates of these years
FirstYear == 2023
LastYear == 2025

(***************************************************************************)
(* Program constants                                                       *)
(***************************************************************************)
MS_PER_DAY == 86400000
MAX_GUESSES == 6

(***************************************************************************)
(* Strings                                                                 *)
(***************************************************************************)
LowerOf ==
  [c \in {"A","B","C","D","E","F","G","H","I","J","K","L","M","N","O","P",
          "Q","R","S","T","U","V","W","X","Y","Z"} |->
     CASE c = "A" -> "a" [] c = "B" -> "b" [] c = "C" -> "c" [] c = "D" -> "d"
       [] c = "E" -> "e" [] c = "F" -> "f" [] c = "G" -> "g" [] c = "H" -> "h"
       [] c = "I" -> "i" [] c = "J" -> "j" [] c = "K" -> "k" [] c = "L" -> "l"
       [] c = "M" -> "m" [] c = "N" -> "n" [] c = "O" -> "o" [] c = "P" -> "p"
       [] c = "Q" -> "q" [] c = "R" -> "r" [] c = "S" -> "s" [] c = "T" -> "t"
       [] c = "U" -> "u" [] c = "V" -> "v" [] c = "W" -> "w" [] c = "X" -> "x"
       [] c = "Y" -> "y" [] c = "Z" -> "z"]

\* String.prototype.toLowerCase
toLowerCase(s) ==
  [i \in 1..Len(s) |-> IF s[i] \in DOMAIN LowerOf THEN LowerOf[s[i]] ELSE s[i]]

(***************************************************************************)
(* Types (src/types.ts) and reference data                                 *)
(***************************************************************************)
Continent == {"Africa", "Americas", "Asia", "Europe", "Oceania", "All"}
Difficulty == {"Easy", "Normal", "Hard"}
CountryType == {"Sovereign", "Territory"}
GameFilter ==
  [continent : Continent, difficulty : Difficulty \cup {"Mixed"},
   type : CountryType \cup {"All"}]

\* the reference data, in load order
COUNTRIES ==
  << [name |-> <<"I","t","a","l","y">>, code |-> "IT", continent |-> "Europe",
      difficulty |-> "Easy", type |-> "Sovereign"],
     [name |-> <<"G","u","a","m">>, code |-> "GU", continent |-> "Oceania",
      difficulty |-> "Hard", type |-> "Territory"],
     [name |-> <<"P","e","r","u">>, code |-> "PE", continent |-> "Americas",
      difficulty |-> "Normal", type |-> "Sovereign"],
     [name |-> <<"F","i","j","i">>, code |-> "FJ", continent |-> "Oceania",
      difficulty |-> "Easy", type |-> "Sovereign"] >>

CountrySet == {COUNTRIES[i] : i \in 1..Len(COUNTRIES)}

(***************************************************************************)
(* Calendar dates, their YYYY-MM-DD strings and Date.getTime()             *)
(***************************************************************************)
IsLeap(y) == (y % 4 = 0 /\ y % 100 # 0) \/ y % 400 = 0

DaysInMonth(y, m) ==
  IF m = 2 THEN (IF IsLeap(y) THEN 29 ELSE 28)
  ELSE IF m \in {4, 6, 9, 11} THEN 30 ELSE 31

\* the calendar date one day after date
NextDay(date) ==
  IF date.d < DaysInMonth(date.y, date.m)
    THEN [date EXCEPT !.d = date.d + 1]
  ELSE IF date.m < 12
    THEN [y |-> date.y, m |-> date.m + 1, d |-> 1]
  ELSE [y |-> date.y + 1, m |-> 1, d |-> 1]

DigitChar == <<"0","1","2","3","4","5","6","7","8","9">>

DigitVal == [c \in {DigitChar[i] : i \in 1..10} |-> CHOOSE v \in 0..9 : DigitChar[v + 1] = c]

\* Intl.DateTimeFormat('en-CA', {year:'numeric', month:'2-digit', day:'2-digit'})
FormatDate(date) ==
  << DigitChar[((date.y \div 1000) % 10) + 1], DigitChar[((date.y \div 100) % 10) + 1],
     DigitChar[((date.y \div 10) % 10) + 1], DigitChar[(date.y % 10) + 1], "-",
     DigitChar[(date.m \div 10) + 1], DigitChar[(date.m % 10) + 1], "-",
     DigitChar[(date.d \div 10) + 1], DigitChar[(date.d % 10) + 1] >>

\* number of leap years in 1 .. y
LeapsThrough(y) == (y \div 4) - (y \div 100) + (y \div 400)

\* the days of year y that precede its month m
DaysBeforeMonth(y, m) ==
  <<0, 31, 59, 90, 120, 151, 181, 212, 243, 273, 304, 334>>[m]
    + (IF m > 2 /\ IsLeap(y) THEN 1 ELSE 0)

\* the days from 1970-01-01 to the date y-m-d
DaysFromCivil ==
  [y \in Nat, m \in 1..12, d \in 1..31 |->
     365 * (y - 1970) + (LeapsThrough(y - 1) - LeapsThrough(1969))
       + DaysBeforeMonth(y, m) + (d - 1)]

\* new Date('YYYY-MM-DD').getTime(): UTC midnight of that date, as <<q, r>>
DateGetTime(s) ==
  << DaysFromCivil[1000 * DigitVal[s[1]] + 100 * DigitVal[s[2]]
                     + 10 * DigitVal[s[3]] + DigitVal[s[4]],
                   10 * DigitVal[s[6]] + DigitVal[s[7]],
                   10 * DigitVal[s[9]] + DigitVal[s[10]]], 0 >>

\* a - b on getTime() values
TimeDiff ==
  [a \in Int \X Nat, b \in Int \X Nat |->
     IF a[2] >= b[2] THEN <<a[1] - b[1], a[2] - b[2]>>
     ELSE <<a[1] - b[1] - 1, a[2] - b[2] + MS_PER_DAY>>]

\* Math.abs on a getTime() difference
TimeAbs ==
  [t \in Int \X Nat |->
     IF t[1] >= 0 THEN t
     ELSE IF t[2] = 0 THEN <<0 - t[1], 0>>
     ELSE <<0 - t[1] - 1, MS_PER_DAY - t[2]>>]

\* Math.floor(t / MS_PER_DAY)
FloorDays(t) == t[1]

\* getLondonDateString, for the reference-timezone calendar date on the clock
getLondonDateString(clock) == FormatDate(clock)

\* getDayNumber, for the reference-timezone calendar date on the clock
getDayNumber(clock) ==
  LET londonDate == getLondonDateString(clock)
      start == DateGetTime(<<"2","0","2","4","-","0","1","-","0","1">>)
      current == DateGetTime(londonDate)
      diffTime == TimeAbs[TimeDiff[current, start]]
  IN  FloorDays(diffTime)

(***************************************************************************)
(* Puzzle selector                                                         *)
(***************************************************************************)
\* Array.prototype.filter on the reference data
IsSovereign(c) == c.type = "Sovereign"

\* getDailyCountry indexing the whole reference data instead of the pool
getDailyCountryUnfiltered(clock) ==
  LET dayNumber == getDayNumber(clock)
      index == dayNumber % Len(COUNTRIES)
  IN  COUNTRIES[index + 1]

\* getDailyCountry, for the reference-timezone calendar date on the clock
getDailyCountry(clock) ==
  LET dayNumber == getDayNumber(clock)
      sovereignPool == SelectSeq(COUNTRIES, IsSovereign)
      index == dayNumber % Len(sovereignPool)
  IN  sovereignPool[index + 1]

\* an absent (undefined) or empty excludeCode: both are falsy
NoCode == ""

\* Math.floor(Math.random() * n), Math.random() being r / RandDen
RandomIndex(r, n) == (r * n) \div RandDen

\* getRandomCountryFiltered without the fallback: indexing the empty pool
\* yields undefined
getRandomCountryNoFallback(filter, excludeCode, r) ==
  LET InContinent(c) == c.continent = filter.continent
      InDifficulty(c) == c.difficulty = filter.difficulty
      InType(c) == c.type = filter.type
      NotExcluded(c) == c.code # excludeCode
      pool0 == COUNTRIES
      pool1 == IF filter.continent # "All" THEN SelectSeq(pool0, InContinent) ELSE pool0
      pool2 == IF filter.difficulty # "Mixed" THEN SelectSeq(pool1, InDifficulty) ELSE pool1
      pool3 == IF filter.type # "All" THEN SelectSeq(pool2, InType) ELSE pool2
      pool == IF excludeCode # NoCode THEN SelectSeq(pool3, NotExcluded) ELSE pool3
  IN  IF Len(pool) = 0
        THEN [name |-> <<>>, code |-> NoCode, continent |-> "", difficulty |-> "",
              type |-> ""]
        ELSE pool[RandomIndex(r, Len(pool)) + 1]

\* getRandomCountryFiltered with each filter applied to the full data, the last
\* active one winning, instead of narrowing the pool
getRandomCountryLastFilter(filter, excludeCode, r) ==
  LET InContinent(c) == c.continent = filter.continent
      InDifficulty(c) == c.difficulty = filter.difficulty
      InType(c) == c.type = filter.type
      NotExcluded(c) == c.code # excludeCode
      pool0 == COUNTRIES
      pool1 == IF filter.continent # "All" THEN SelectSeq(pool0, InContinent) ELSE pool0
      pool2 == IF filter.difficulty # "Mixed" THEN SelectSeq(pool0, InDifficulty) ELSE pool1
      pool3 == IF filter.type # "All" THEN SelectSeq(pool0, InType) ELSE pool2
      pool == IF excludeCode # NoCode THEN SelectSeq(pool3, NotExcluded) ELSE pool3
  IN  IF Len(pool) = 0
        THEN COUNTRIES[RandomIndex(r, Len(COUNTRIES)) + 1]
        ELSE pool[RandomIndex(r, Len(pool)) + 1]

\* getRandomCountryFiltered(filter, excludeCode), Math.random() being r / RandDen
getRandomCountryFiltered(filter, excludeCode, r) ==
  LET InContinent(c) == c.continent = filter.continent
      InDifficulty(c) == c.difficulty = filter.difficulty
      InType(c) == c.type = filter.type
      NotExcluded(c) == c.code # excludeCode
      pool0 == COUNTRIES
      pool1 == IF filter.continent # "All" THEN SelectSeq(pool0, InContinent) ELSE pool0
      pool2 == IF filter.difficulty # "Mixed" THEN SelectSeq(pool1, InDifficulty) ELSE pool1
      pool3 == IF filter.type # "All" THEN SelectSeq(pool2, InType) ELSE pool2
      pool == IF excludeCode # NoCode THEN SelectSeq(pool3, NotExcluded) ELSE pool3
  IN  IF Len(pool) = 0
        THEN COUNTRIES[RandomIndex(r, Len(COUNTRIES)) + 1]
        ELSE pool[RandomIndex(r, Len(pool)) + 1]

(***************************************************************************)
(* Result formatter.  A character outside ASCII is written as the name of  *)
(* its code point.                                                         *)
(***************************************************************************)
\* the title of an ad-hoc result
TitleInfinite ==
  << "U+1F30D", " ", "S", "h", "a", "p", "e", "l", "y", " ", "(", "I", "n",
    "f", "i", "n", "i", "t", "e", " ", "M", "o", "d", "e", ")", " ",
    "U+1F4CD", "\n" >>

\* the title of a daily result, before the day number
TitleDailyHead ==
  << "U+1F30D", " ", "S", "h", "a", "p", "e", "l", "y", " ", "N", "o", ".",
    " " >>

\* the title of a daily result, after the day number
TitleDailyTail ==
  << " ", "U+1F4CD", "\n" >>

\* the outcome line of a win, before the count
WinHead ==
  << "W", "o", "w", "!", " ", "U+1F308", " ", "I", " ", "g", "u", "e", "s",
    "s", "e", "d", " ", "t", "h", "e", " ", "r", "i", "g", "h", "t", " ",
    "c", "o", "u", "n", "t", "r", "y", " ", "i", "n", " " >>

\* the outcome line of a win, after the count
WinTail ==
  << "/", "6", " ", "t", "r", "i", "e", "s", "!", " ", "U+1F3C6", "U+2728",
    "\n", "\n" >>

\* the outcome line of a loss
LossLine ==
  << "O", "u", "c", "h", "!", " ", "U+1F605", " ", "T", "o", "d", "a", "y",
    "'", "s", " ", "s", "h", "a", "p", "e", " ", "w", "a", "s", " ", "a",
    " ", "r", "e", "a", "l", " ", "m", "y", "s", "t", "e", "r", "y", "!",
    " ", "X", "/", "6", " ", "U+1F4A8", "U+2601", "U+FE0F", "\n", "\n" >>

\* the line of a guess that names the country
GreenLine ==
  << "U+1F7E9", "U+1F7E9", "U+1F7E9", "U+1F7E9", "U+1F7E9", "\n" >>

\* the line of any other guess
RedLine ==
  << "U+1F7E5", "U+1F7E5", "U+1F7E5", "U+1F7E5", "U+1F7E5", "\n" >>

\* the closing lines
Footer ==
  << "\n", "C", "o", "m", "e", " ", "p", "l", "a", "y", " ", "t", "h", "i",
    "s", " ", "g", "a", "m", "e", " ", "t", "o", "o", "!", " ", "U+1F5FA",
    "U+FE0F", "U+26A1", "U+1F680", "\n", "h", "t", "t", "p", "s", ":", "/",
    "/", "g", "e", "o", "s", "h", "a", "p", "e", "l", "y", ".", "n", "e",
    "t", "l", "i", "f", "y", ".", "a", "p", "p", "/" >>

RECURSIVE NumberToString(_)
\* the decimal text of a non-negative integer, as a template literal gives it
NumberToString(n) ==
  IF n < 10 THEN <<DigitChar[n + 1]>>
  ELSE NumberToString(n \div 10) \o <<DigitChar[(n % 10) + 1]>>

RECURSIVE GuessLinesCaseSensitive(_, _)
\* the lines of the guesses, comparing the texts as typed
GuessLinesCaseSensitive(guesses, correctCountry) ==
  IF Len(guesses) = 0 THEN <<>>
  ELSE GuessLinesCaseSensitive(SubSeq(guesses, 1, Len(guesses) - 1), correctCountry)
         \o (IF guesses[Len(guesses)] = correctCountry THEN GreenLine ELSE RedLine)

RECURSIVE GuessLines(_, _)
\* guesses.forEach(...) of generateShareGrid: one line per guess, in order
GuessLines(guesses, correctCountry) ==
  IF Len(guesses) = 0 THEN <<>>
  ELSE GuessLines(SubSeq(guesses, 1, Len(guesses) - 1), correctCountry)
         \o (IF toLowerCase(guesses[Len(guesses)]) = toLowerCase(correctCountry)
               THEN GreenLine ELSE RedLine)

\* generateShareGrid(guesses, correctCountry, isWin, isInfinite), called while
\* the clock shows the reference-timezone date clock
generateShareGrid(guesses, correctCountry, isWin, isInfinite, clock) ==
  LET dayNumber == getDayNumber(clock)
      count == Len(guesses)
  IN  (IF isInfinite THEN TitleInfinite
       ELSE TitleDailyHead \o NumberToString(dayNumber) \o TitleDailyTail)
      \o (IF isWin THEN WinHead \o NumberToString(count) \o WinTail
          ELSE LossLine)
      \o GuessLines(guesses, correctCountry)
      \o Footer

(***************************************************************************)
(* Round state and persistence                                             *)
(***************************************************************************)
\* the key of the ad-hoc round
INFINITE == <<"i","n","f","i","n","i","t","e">>

\* { date, guesses: [], isFinished: false, won: false }
FreshState(date) ==
  [date |-> date, guesses |-> <<>>, isFinished |-> FALSE, won |-> FALSE]

\* useState<Country | null>(null)
NullCountry ==
  [name |-> <<>>, code |-> NoCode, continent |-> "", difficulty |-> "", type |-> ""]

\* localStorage.getItem of a key never written
NoBlob == [json |-> "none"]

\* JSON.stringify of a GameState
JSONstringify(state) ==
  [json |-> "object", date |-> state.date, guesses |-> state.guesses,
   isFinished |-> state.isFinished, won |-> state.won]

\* what localStorage can hold besides an object's text: the empty string,
\* text that is not JSON, and the JSON texts null, 42, "x", true and []
BlobKinds == {"none", "empty", "invalid", "null", "number", "string", "boolean",
              "array", "object"}

\* JSON.parse of the text of an object: the object, with the properties the
\* text has
JSONparse(blob) == [f \in DOMAIN blob \ {"json"} |-> blob[f]]

\* the initializer of dailyState: the saved text is falsy (null or ""), or
\* JSON.parse throws (caught), or reading .date of null throws (caught), or
\* .date of a number, string, boolean or array is undefined, or the object's
\* date is compared with todayLDN
LoadDailyState(saved, todayLDN) ==
  IF saved.json \in {"none", "empty"} THEN FreshState(todayLDN)
  ELSE IF saved.json = "invalid" THEN FreshState(todayLDN)
  ELSE IF saved.json = "null" THEN FreshState(todayLDN)
  ELSE IF saved.json # "object" THEN FreshState(todayLDN)
  ELSE IF "date" \in DOMAIN JSONparse(saved) /\ JSONparse(saved).date = todayLDN
    THEN JSONparse(saved)
    ELSE FreshState(todayLDN)

\* the initial activeFilter
DefaultFilter == [continent |-> "All", difficulty |-> "Mixed", type |-> "All"]

(***************************************************************************)
(* The application (App).  now is the calendar date a wall clock in the    *)
(* reference timezone shows; storage is localStorage[STORAGE_KEY]; the     *)
(* seven variables from isInfiniteMode to infiniteState are the React      *)
(* state; view is the state as of the last render, which is what the       *)
(* callbacks handleGuess, checkDayChange and startInfiniteMode close over. *)
(* lastOp names the handler that ran last and the guess text it was given. *)
(* pdate and call belong to the checks of the pure functions.              *)
(***************************************************************************)
VARIABLES now, ticks, storage, isInfiniteMode, activeFilter, currentDay,
          dailyCountry, dailyState, infiniteCountry, infiniteState, view,
          lastOp, pdate, call

appState == <<isInfiniteMode, activeFilter, currentDay, dailyCountry, dailyState,
              infiniteCountry, infiniteState>>
vars == <<now, ticks, storage, isInfiniteMode, activeFilter, currentDay,
          dailyCountry, dailyState, infiniteCountry, infiniteState, view,
          lastOp, pdate, call>>

\* the date on the clock when the session of the model starts
StartDate == [y |-> 2024, m |-> 2, d |-> 28]

\* String.prototype.toUpperCase
toUpperCase(s) ==
  [i \in 1..Len(s) |->
     IF \E c \in DOMAIN LowerOf : LowerOf[c] = s[i]
       THEN CHOOSE c \in DOMAIN LowerOf : LowerOf[c] = s[i]
       ELSE s[i]]

\* the guess texts the input collaborator supplies while country is shown:
\* its name typed in capitals, and a text that names no country
GuessTexts(country) == { toUpperCase(country.name), <<"O","z">> }

\* the values of Math.random() the session draws: the least and the greatest
AppRandoms == {0, RandDen - 1}

\* the filters the mode panel offers
UiFilters ==
  { DefaultFilter,
    [continent |-> "Oceania", difficulty |-> "Mixed", type |-> "All"] }

NoCall == [fn |-> "none"]

\* what a render reads of the React state
Snapshot(inf, flt, day, dc, ds, ic, is) ==
  [isInfiniteMode |-> inf, activeFilter |-> flt, currentDay |-> day,
   dailyCountry |-> dc, dailyState |-> ds, infiniteCountry |-> ic,
   infiniteState |-> is]

\* const activeState = isInfiniteMode ? infiniteState : dailyState
activeState(v) == IF v.isInfiniteMode THEN v.infiniteState ELSE v.dailyState

\* const activeCountry = isInfiniteMode ? (infiniteCountry || dailyCountry) : dailyCountry
activeCountry(v) ==
  IF v.isInfiniteMode
    THEN (IF v.infiniteCountry # NullCountry THEN v.infiniteCountry ELSE v.dailyCountry)
    ELSE v.dailyCountry

\* the persistence effect: runs after a render, writes in daily mode only
PersistEffect(inf, ds, old) == IF ~inf THEN JSONstringify(ds) ELSE old

\* a render of the new state followed by its effects
RenderNow ==
  /\ view' = Snapshot(isInfiniteMode', activeFilter', currentDay', dailyCountry',
                      dailyState', infiniteCountry', infiniteState')
  /\ storage' = PersistEffect(isInfiniteMode', dailyState', storage)

\* the i-th clock read of a handler during which midnight passes after read k
ClockAt(i, k) == IF i <= k THEN now ELSE NextDay(now)

\* a handler makes n clock reads, the first k of them before midnight
ClockReads(k, n) ==
  /\ k < n => ticks < MaxTicks
  /\ now' = IF k < n THEN NextDay(now) ELSE now
  /\ ticks' = IF k < n THEN ticks + 1 ELSE ticks

\* the state initializers of App, then the first render and its effects
Mount(d1, d2, d3, saved) ==
  /\ isInfiniteMode' = FALSE
  /\ activeFilter' = DefaultFilter
  /\ currentDay' = getDayNumber(d1)
  /\ dailyCountry' = getDailyCountry(d2)
  /\ dailyState' = LoadDailyState(saved, getLondonDateString(d3))
  /\ infiniteCountry' = NullCountry
  /\ infiniteState' = FreshState(INFINITE)
  /\ RenderNow

\* the application right after construction, on StartDate, with empty storage
SessionInit ==
  /\ now = StartDate
  /\ ticks = 0
  /\ isInfiniteMode = FALSE
  /\ activeFilter = DefaultFilter
  /\ currentDay = getDayNumber(StartDate)
  /\ dailyCountry = getDailyCountry(StartDate)
  /\ dailyState = LoadDailyState(NoBlob, getLondonDateString(StartDate))
  /\ infiniteCountry = NullCountry
  /\ infiniteState = FreshState(INFINITE)
  /\ view = Snapshot(isInfiniteMode, activeFilter, currentDay, dailyCountry,
                     dailyState, infiniteCountry, infiniteState)
  /\ storage = PersistEffect(isInfiniteMode, dailyState, NoBlob)
  /\ lastOp = [op |-> "mount", g |-> <<>>]

Init ==
  /\ SessionInit
  /\ pdate = StartDate
  /\ call = NoCall

\* midnight passes in the reference timezone
Tick ==
  /\ ticks < MaxTicks
  /\ now' = NextDay(now)
  /\ ticks' = ticks + 1
  /\ lastOp' = [op |-> "tick", g |-> <<>>]
  /\ UNCHANGED <<storage, appState, view, pdate, call>>

\* the page is loaded again: a new session over the same localStorage
Reload ==
  /\ \E k \in 1..3 :
       /\ ClockReads(k, 3)
       /\ Mount(ClockAt(1, k), ClockAt(2, k), ClockAt(3, k), storage)
  /\ lastOp' = [op |-> "reload", g |-> <<>>]
  /\ UNCHANGED <<pdate, call>>

\* submitGuess ending the round only after MAX_GUESSES is exceeded
submitGuessLateStop(state, countryName, target) ==
  LET isCorrect == toLowerCase(countryName) = toLowerCase(target.name)
      newGuesses == Append(state.guesses, countryName)
      isGameOver == isCorrect \/ Len(newGuesses) > MAX_GUESSES
  IN  [state EXCEPT !.guesses = newGuesses, !.isFinished = isGameOver,
                    !.won = isCorrect]

\* submitGuess comparing the texts as typed
submitGuessCaseSensitive(state, countryName, target) ==
  LET isCorrect == countryName = target.name
      newGuesses == Append(state.guesses, countryName)
      isGameOver == isCorrect \/ Len(newGuesses) >= MAX_GUESSES
  IN  [state EXCEPT !.guesses = newGuesses, !.isFinished = isGameOver,
                    !.won = isCorrect]

\* the state handleGuess computes from what its closure holds
submitGuess(state, countryName, target) ==
  LET isCorrect == toLowerCase(countryName) = toLowerCase(target.name)
      newGuesses == Append(state.guesses, countryName)
      isGameOver == isCorrect \/ Len(newGuesses) >= MAX_GUESSES
  IN  [state EXCEPT !.guesses = newGuesses, !.isFinished = isGameOver,
                    !.won = isCorrect]

\* handleGuess storing the new state in the daily round in either mode
HandleGuessIgnoringMode(countryName) ==
  /\ IF activeState(view).isFinished
       THEN UNCHANGED <<dailyState, infiniteState>>
       ELSE LET newState == submitGuess(activeState(view), countryName,
                                        activeCountry(view))
            IN  dailyState' = newState /\ UNCHANGED infiniteState
  /\ UNCHANGED <<isInfiniteMode, activeFilter, currentDay, dailyCountry,
                 infiniteCountry>>
  /\ RenderNow
  /\ lastOp' = [op |-> "guess", g |-> countryName]
  /\ UNCHANGED <<now, ticks, pdate, call>>

\* handleGuess without the early return on a finished round
HandleGuessUnguarded(countryName) ==
  /\ LET newState == submitGuess(activeState(view), countryName, activeCountry(view))
     IN  IF view.isInfiniteMode
           THEN infiniteState' = newState /\ UNCHANGED dailyState
           ELSE dailyState' = newState /\ UNCHANGED infiniteState
  /\ UNCHANGED <<isInfiniteMode, activeFilter, currentDay, dailyCountry,
                 infiniteCountry>>
  /\ RenderNow
  /\ lastOp' = [op |-> "guess", g |-> countryName]
  /\ UNCHANGED <<now, ticks, pdate, call>>

\* handleGuess(countryName), from the guess input
HandleGuess(countryName) ==
  /\ IF activeState(view).isFinished
       THEN UNCHANGED <<dailyState, infiniteState>>
       ELSE LET newState == submitGuess(activeState(view), countryName,
                                        activeCountry(view))
            IN  IF view.isInfiniteMode
                  THEN infiniteState' = newState /\ UNCHANGED dailyState
                  ELSE dailyState' = newState /\ UNCHANGED infiniteState
  /\ UNCHANGED <<isInfiniteMode, activeFilter, currentDay, dailyCountry,
                 infiniteCountry>>
  /\ RenderNow
  /\ lastOp' = [op |-> "guess", g |-> countryName]
  /\ UNCHANGED <<now, ticks, pdate, call>>

\* checkDayChange reacting only to a day number below the stored one
DayChangeBackwards(k) ==
  LET dayNow == getDayNumber(ClockAt(1, k))
  IN  IF dayNow < view.currentDay
        THEN /\ ClockReads(k, 3)
             /\ currentDay' = dayNow
             /\ dailyCountry' = getDailyCountry(ClockAt(3, k))
             /\ dailyState' = FreshState(getLondonDateString(ClockAt(2, k)))
        ELSE /\ k = 3
             /\ UNCHANGED <<now, ticks, currentDay, dailyCountry, dailyState>>

\* the state updates of checkDayChange
DayChange(k) ==
  LET dayNow == getDayNumber(ClockAt(1, k))
  IN  IF dayNow # view.currentDay
        THEN /\ ClockReads(k, 3)
             /\ currentDay' = dayNow
             /\ dailyCountry' = getDailyCountry(ClockAt(3, k))
             /\ dailyState' = FreshState(getLondonDateString(ClockAt(2, k)))
        ELSE /\ k = 3
             /\ UNCHANGED <<now, ticks, currentDay, dailyCountry, dailyState>>

\* checkDayChange from setInterval: the render of its updates is scheduled
TimerCheck ==
  /\ \E k \in 1..3 : DayChange(k)
  /\ lastOp' = [op |-> "timer", g |-> <<>>]
  /\ UNCHANGED <<isInfiniteMode, activeFilter, infiniteCountry, infiniteState,
                 storage, view, pdate, call>>

\* checkDayChange from the focus event: rendered before the next event
FocusCheck ==
  /\ \E k \in 1..3 : DayChange(k)
  /\ UNCHANGED <<isInfiniteMode, activeFilter, infiniteCountry, infiniteState>>
  /\ RenderNow
  /\ lastOp' = [op |-> "focus", g |-> <<>>]
  /\ UNCHANGED <<pdate, call>>

\* the scheduled render of the updates a timer callback made
Render ==
  /\ view # Snapshot(isInfiniteMode, activeFilter, currentDay, dailyCountry,
                     dailyState, infiniteCountry, infiniteState)
  /\ UNCHANGED appState
  /\ RenderNow
  /\ lastOp' = [op |-> "render", g |-> <<>>]
  /\ UNCHANGED <<now, ticks, pdate, call>>

\* startInfiniteMode keeping the guesses of the previous ad-hoc round
startInfiniteModeKeepingState(filter, r) ==
  /\ infiniteCountry' = getRandomCountryFiltered(filter, activeCountry(view).code, r)
  /\ infiniteState' = infiniteState
  /\ isInfiniteMode' = TRUE

\* the state updates of startInfiniteMode(filter), Math.random() being r / RandDen
startInfiniteMode(filter, r) ==
  /\ infiniteCountry' = getRandomCountryFiltered(filter, activeCountry(view).code, r)
  /\ infiniteState' = FreshState(INFINITE)
  /\ isInfiniteMode' = TRUE

\* startInfiniteMode() from the result dialog: no filterOverride
StartInfinite ==
  /\ \E r \in AppRandoms : startInfiniteMode(view.activeFilter, r)
  /\ UNCHANGED <<activeFilter, currentDay, dailyCountry, dailyState>>
  /\ RenderNow
  /\ lastOp' = [op |-> "start", g |-> <<>>]
  /\ UNCHANGED <<now, ticks, pdate, call>>

\* handleModeChange(newFilter), from the mode panel
HandleModeChange ==
  /\ \E newFilter \in UiFilters, r \in AppRandoms :
       /\ activeFilter' = newFilter
       /\ startInfiniteMode(newFilter, r)
  /\ UNCHANGED <<currentDay, dailyCountry, dailyState>>
  /\ RenderNow
  /\ lastOp' = [op |-> "mode", g |-> <<>>]
  /\ UNCHANGED <<now, ticks, pdate, call>>

\* "Back to Daily Challenge": setIsInfiniteMode(false), shown in infinite mode
BackToDaily ==
  /\ view.isInfiniteMode
  /\ isInfiniteMode' = FALSE
  /\ UNCHANGED <<activeFilter, currentDay, dailyCountry, dailyState,
                 infiniteCountry, infiniteState>>
  /\ RenderNow
  /\ lastOp' = [op |-> "back", g |-> <<>>]
  /\ UNCHANGED <<now, ticks, pdate, call>>

\* handleShare, from the result dialog of a finished round: the text handed
\* to navigator.share or the clipboard, with the round it was made from
HandleShare ==
  /\ activeState(view).isFinished
  /\ call' = [fn |-> "handleShare",
              isInfinite |-> view.isInfiniteMode,
              key |-> activeState(view).date,
              correctCountry |-> activeCountry(view).name,
              res |-> generateShareGrid(activeState(view).guesses,
                                        activeCountry(view).name,
                                        activeState(view).won,
                                        view.isInfiniteMode, now)]
  /\ lastOp' = [op |-> "share", g |-> <<>>]
  /\ UNCHANGED <<now, ticks, storage, appState, view, pdate>>

Next ==
  \/ Tick
  \/ Reload
  \/ \E g \in GuessTexts(activeCountry(view)) : HandleGuess(g)
  \/ TimerCheck
  \/ FocusCheck
  \/ Render
  \/ StartInfinite
  \/ HandleModeChange
  \/ BackToDaily

Spec == Init /\ [][Next]_vars

(***************************************************************************)
(* The pure functions of utils, applied to inputs drawn from bounded sets. *)
(* The application's variables keep their initial values.                  *)
(***************************************************************************)
\* the calendar dates the day-index checks cover: the year before the epoch
\* and the years from the epoch to LastYear
PureDates ==
  { date \in [y : FirstYear..LastYear, m : 1..12, d : 1..31] :
      date.d <= DaysInMonth(date.y, date.m) }

RECURSIVE DateAfter(_, _)
\* the calendar date i days after date
DateAfter(date, i) == IF i = 0 THEN date ELSE DateAfter(NextDay(date), i - 1)

InitDay ==
  /\ SessionInit
  /\ pdate \in PureDates
  /\ call = NoCall

\* a call of getDayNumber while the clock shows pdate
DayNumberCall ==
  /\ call' = [fn |-> "getDayNumber", res |-> getDayNumber(pdate)]
  /\ UNCHANGED <<now, ticks, storage, appState, view, lastOp, pdate>>

\* a call of getDailyCountry while the clock shows pdate
DailyCountryCall ==
  /\ call' = [fn |-> "getDailyCountry", res |-> getDailyCountry(pdate)]
  /\ UNCHANGED <<now, ticks, storage, appState, view, lastOp, pdate>>

NextDayIndex == DayNumberCall \/ DailyCountryCall

SpecDay == InitDay /\ [][NextDayIndex]_vars

\* the excludeCode arguments: none, each code of the data, a code not in it
ExcludeCodes == {NoCode, "ZZ"} \cup {c.code : c \in CountrySet}

InitSel ==
  /\ SessionInit
  /\ pdate = StartDate
  /\ call = NoCall

\* a call of getRandomCountryFiltered
RandomCall ==
  /\ \E filter \in GameFilter, excludeCode \in ExcludeCodes, r \in 0..(RandDen - 1) :
       call' = [fn |-> "getRandomCountryFiltered", filter |-> filter,
                excludeCode |-> excludeCode, r |-> r,
                res |-> getRandomCountryFiltered(filter, excludeCode, r)]
  /\ UNCHANGED <<now, ticks, storage, appState, view, lastOp, pdate>>

NextSel == RandomCall

SpecSel == InitSel /\ [][NextSel]_vars

\* the reference dates of the loads checked on their own
LoadDates == {StartDate, NextDay(StartDate)}

\* the properties of a GameState
StateFields == {"date", "guesses", "isFinished", "won"}

\* the texts a GameState can be saved as, for the guess sequences of 0 and 1 guess
SavedStates ==
  { JSONstringify(st) :
      st \in [date : {FormatDate(d) : d \in LoadDates},
              guesses : {<<>>, << <<"O","z">> >>},
              isFinished : BOOLEAN, won : BOOLEAN] }

\* the values of localStorage[STORAGE_KEY] a load can meet: nothing, texts that
\* are no object, and objects having any subset of the properties of a
\* GameState
Blobs ==
  { [json |-> k] : k \in BlobKinds \ {"object"} }
    \cup { [f \in F \cup {"json"} |-> b[f]] : b \in SavedStates, F \in SUBSET StateFields }

InitLoad ==
  /\ SessionInit
  /\ pdate \in LoadDates
  /\ call = NoCall

\* the dailyState initializer run on a saved value while the clock shows pdate
LoadCall ==
  /\ \E saved \in Blobs :
       call' = [fn |-> "loadDailyState", saved |-> saved,
                res |-> LoadDailyState(saved, getLondonDateString(pdate))]
  /\ UNCHANGED <<now, ticks, storage, appState, view, lastOp, pdate>>

NextLoad == LoadCall

SpecLoad == InitLoad /\ [][NextLoad]_vars

\* the guess texts of the shared rounds: the country's name as it is written
\* in the reference data, the name in capitals, and a text naming no country
ShareTexts(country) == {country.name, toUpperCase(country.name), <<"O","z">>}

RECURSIVE SeqsUpTo(_, _)
\* the sequences of at most n elements of S
SeqsUpTo(S, n) ==
  IF n = 0 THEN {<<>>}
  ELSE LET shorter == SeqsUpTo(S, n - 1)
       IN  shorter \cup {Append(q, x) : q \in {p \in shorter : Len(p) = n - 1}, x \in S}

\* the countries whose rounds are shared in the checks of generateShareGrid
ShareCountries == {COUNTRIES[3], COUNTRIES[4]}

\* the clock of a share: the epoch, a day with a one-digit number, StartDate
\* (day 58) and a day with a three-digit number
ShareDates ==
  {[y |-> 2024, m |-> 1, d |-> 1], [y |-> 2024, m |-> 1, d |-> 8], StartDate,
   [y |-> 2024, m |-> 12, d |-> 31]}

InitShare ==
  /\ SessionInit
  /\ pdate \in ShareDates
  /\ call = NoCall

\* one call of generateShareGrid while the clock shows pdate
ShareCall ==
  /\ call = NoCall
  /\ \E country \in ShareCountries, isWin \in BOOLEAN, isInfinite \in BOOLEAN :
       \E guesses \in SeqsUpTo(ShareTexts(country), MAX_GUESSES) :
         call' = [fn |-> "generateShareGrid", guesses |-> guesses,
                  correctCountry |-> country.name, isWin |-> isWin,
                  isInfinite |-> isInfinite,
                  res |-> generateShareGrid(guesses, country.name, isWin,
                                            isInfinite, pdate)]
  /\ UNCHANGED <<now, ticks, storage, appState, view, lastOp, pdate>>

NextShare == ShareCall

SpecShare == InitShare /\ [][NextShare]_vars

(***************************************************************************)
(* Notions the properties are stated with                                  *)
(***************************************************************************)
\* a and b are the same text up to the case of their letters
SameTextIgnoringCase(a, b) ==
  /\ Len(a) = Len(b)
  /\ \A i \in 1..Len(a) :
       \/ a[i] = b[i]
       \/ a[i] \in DOMAIN LowerOf /\ LowerOf[a[i]] = b[i]
       \/ b[i] \in DOMAIN LowerOf /\ LowerOf[b[i]] = a[i]

\* the positions of the Sovereign entries in the reference data
SovereignAt == {i \in 1..Len(COUNTRIES) : COUNTRIES[i].type = "Sovereign"}

\* entry number n mod |pool| (counting from 0) of the Sovereign entries in load order
PoolEntry(n) ==
  COUNTRIES[CHOOSE i \in SovereignAt :
              Cardinality({j \in SovereignAt : j < i}) = n % Cardinality(SovereignAt)]

\* the two rounds of the session, each with the puzzle it is paired with
Rounds ==
  { [state |-> dailyState, puzzle |-> dailyCountry],
    [state |-> infiniteState,
     puzzle |-> IF infiniteCountry # NullCountry THEN infiniteCountry ELSE dailyCountry] }

\* the last handler that ran was handleGuess
GuessStep == lastOp'.op = "guess"

\* the last handler that ran was checkDayChange
CheckStep == lastOp'.op \in {"timer", "focus"}

\* the step is a load of the page
ReloadStep == lastOp'.op = "reload"

(***************************************************************************)
(* Round state machine                                                     *)
(***************************************************************************)
\* C1: in every reachable state the guess sequences of the daily and of the
\* ad-hoc RoundState have at most MAX_GUESSES (6) entries.
C1_AtMostSixGuesses ==
  /\ Len(dailyState.guesses) <= 6
  /\ Len(infiniteState.guesses) <= 6

\* a sixth guess has just been recorded in the daily round
C1_Witness ==
  /\ lastOp.op = "guess"
  /\ Len(dailyState.guesses) = 6
  /\ dailyState.guesses[6] = lastOp.g

\* C2: a guess g submitted to an in-progress round with target T appends g;
\* the round is then Won if g is T's name up to case (also as 6th guess),
\* else Lost if it now has 6 guesses, else still in progress.
C2_SubmitGuessOutcome ==
  [][ (GuessStep /\ ~activeState(view).isFinished) =>
        LET before == activeState(view)
            T == activeCountry(view)
            g == lastOp'.g
            after == IF view.isInfiniteMode THEN infiniteState' ELSE dailyState'
        IN  /\ after.guesses = before.guesses \o <<g>>
            /\ after.date = before.date
            /\ IF SameTextIgnoringCase(g, T.name)
                 THEN after.isFinished /\ after.won
               ELSE IF Len(after.guesses) = 6
                 THEN after.isFinished /\ ~after.won
               ELSE ~after.isFinished /\ ~after.won ]_vars

\* the daily round was won with the sixth guess, typed in another case
C2_Witness ==
  /\ lastOp.op = "guess"
  /\ ~isInfiniteMode
  /\ Len(dailyState.guesses) = 6
  /\ dailyState.won /\ dailyState.isFinished
  /\ dailyState.guesses[6] = lastOp.g
  /\ lastOp.g # dailyCountry.name
  /\ SameTextIgnoringCase(lastOp.g, dailyCountry.name)

\* C3: once a RoundState is finished, a further guess submission, whatever
\* its text, leaves that state (key, guesses, finished, won) unchanged.
C3_FinishedIsFrozen ==
  [][ GuessStep =>
        /\ dailyState.isFinished => dailyState' = dailyState
        /\ infiniteState.isFinished => infiniteState' = infiniteState ]_vars

\* a guess was submitted to the finished daily round and was not recorded
C3_Witness ==
  /\ lastOp.op = "guess"
  /\ ~isInfiniteMode
  /\ dailyState.isFinished
  /\ dailyState.guesses[Len(dailyState.guesses)] # lastOp.g

\* C4: in every reachable state and for both rounds, won implies finished and
\* a last guess equal up to case to the name of the paired puzzle; finished
\* and not won implies exactly 6 guesses, none of them that name.
C4_OutcomeMatchesPuzzle ==
  \A rd \in Rounds :
    LET s == rd.state
        name == rd.puzzle.name
    IN  /\ s.won =>
             /\ s.isFinished
             /\ Len(s.guesses) > 0
             /\ SameTextIgnoringCase(s.guesses[Len(s.guesses)], name)
        /\ (s.isFinished /\ ~s.won) =>
             /\ Len(s.guesses) = 6
             /\ \A i \in 1..6 : ~SameTextIgnoringCase(s.guesses[i], name)

(***************************************************************************)
(* Rollover                                                                *)
(***************************************************************************)
\* C5: a rollover check replaces the daily round exactly when the day number
\* now reported differs from the stored one: then the daily state is a fresh
\* in-progress state keyed to the new reference date, the stored day number
\* is the new one and the daily puzzle is dailyPuzzle(new day number);
\* otherwise the check changes nothing.
C5_RolloverExactlyOnDayChange ==
  [][ CheckStep =>
        IF getDayNumber(now) # currentDay
          THEN /\ currentDay' = getDayNumber(now')
               /\ dailyState' = FreshState(FormatDate(now'))
               /\ dailyCountry' = PoolEntry(currentDay')
          ELSE UNCHANGED <<currentDay, dailyCountry, dailyState, infiniteState,
                           infiniteCountry, isInfiniteMode>> ]_vars

\* C6: a guess that is recorded in the daily round was evaluated against the
\* daily puzzle paired with that round, and extends the round as it stood
\* when the guess was submitted; otherwise the guess is dropped.
C6_GuessAgainstPairedPuzzle ==
  [][ (GuessStep /\ dailyState' # dailyState) =>
        /\ activeCountry(view) = dailyCountry'
        /\ dailyState'.date = dailyState.date
        /\ dailyState'.guesses = dailyState.guesses \o <<lastOp'.g>> ]_vars

\* a session left open in daily mode: no reload, no ad-hoc round
NextOpen ==
  \/ Tick
  \/ \E g \in GuessTexts(activeCountry(view)) : HandleGuess(g)
  \/ TimerCheck
  \/ FocusCheck
  \/ Render

\* a session left open in daily mode whose results are shared
NextShared ==
  \/ Tick
  \/ \E g \in GuessTexts(activeCountry(view)) : HandleGuess(g)
  \/ TimerCheck
  \/ FocusCheck
  \/ Render
  \/ HandleShare

SpecShared == Init /\ [][NextShared]_vars

\* the polling timer keeps firing and scheduled renders are carried out
SpecLive == Init /\ [][NextOpen]_vars /\ WF_vars(TimerCheck) /\ WF_vars(Render)

\* the dates the clock of the session can show after a midnight
LaterDates == {DateAfter(StartDate, i) : i \in 1..MaxTicks}

\* the session has rolled over to date c: the stored day number is c's, and
\* the daily round is a fresh one for c, with c's puzzle
RolledOverTo(c) ==
  /\ now = c
  /\ currentDay = getDayNumber(c)
  /\ dailyState = FreshState(FormatDate(c))
  /\ dailyCountry = PoolEntry(getDayNumber(c))

\* C7: if the reference date changes and then stays at c, the session, left
\* open, eventually holds c's day number and a fresh daily round for c.
C7_EventuallyRollsOver ==
  \A c \in LaterDates : (<>[](now = c)) => <>RolledOverTo(c)

\* the polling timer has rolled the open session over to the new date
C7_Witness ==
  /\ lastOp.op = "timer"
  /\ ticks > 0
  /\ RolledOverTo(now)
  /\ view.currentDay # currentDay
  /\ Len(view.dailyState.guesses) > 0

(***************************************************************************)
(* Day index and puzzle selection                                          *)
(***************************************************************************)
\* C8: getDailyCountry returns entry number n mod |pool| of the Sovereign
\* entries of the reference data in load order, n being the day number; so it
\* returns Sovereign entries only and one country per day number.
C8_DailyPuzzleIsPoolEntry ==
  call.fn = "getDailyCountry" =>
    /\ call.res = PoolEntry(getDayNumber(pdate))
    /\ call.res.type = "Sovereign"
    /\ call.res \in CountrySet

\* the day number exceeds the pool size and the entry after a Territory is chosen
C8_Witness ==
  /\ call.fn = "getDailyCountry"
  /\ getDayNumber(pdate) > Len(COUNTRIES)
  /\ call.res = COUNTRIES[3]

\* C9: getDayNumber counts whole calendar days from 2024-01-01: the date one
\* calendar day after D has day number dayNumber(D) + 1, the day number is
\* non-negative on and after the epoch, and it is 0 on the epoch.
C9_DayNumberCountsCalendarDays ==
  call.fn = "getDayNumber" =>
    /\ getDayNumber(NextDay(pdate)) = call.res + 1
    /\ pdate.y >= 2024 => call.res >= 0
    /\ pdate = [y |-> 2024, m |-> 1, d |-> 1] => call.res = 0

\* c satisfies every active selector of filter
PassesFilter(c, filter) ==
  /\ filter.continent = "All" \/ c.continent = filter.continent
  /\ filter.difficulty = "Mixed" \/ c.difficulty = filter.difficulty
  /\ filter.type = "All" \/ c.type = filter.type

\* C10: whenever some entry satisfies every active filter and has a code other
\* than excludeCode, getRandomCountryFiltered returns such an entry, for
\* every value of the random source.
C10_RandomPuzzleRespectsFilters ==
  (/\ call.fn = "getRandomCountryFiltered"
   /\ \E c \in CountrySet :
        PassesFilter(c, call.filter) /\ c.code # call.excludeCode)
  => /\ call.res \in CountrySet
     /\ PassesFilter(call.res, call.filter)
     /\ call.res.code # call.excludeCode

\* three active filters and an exclusion that removes a matching entry
C10_Witness ==
  /\ call.fn = "getRandomCountryFiltered"
  /\ call.filter = [continent |-> "Oceania", difficulty |-> "Mixed", type |-> "All"]
  /\ call.excludeCode = "GU"
  /\ call.r = RandDen - 1
  /\ call.res.code = "FJ"

\* C11: whenever no entry satisfies every active filter with a code other
\* than excludeCode, getRandomCountryFiltered still returns an entry of the
\* reference data, for every value of the random source.
C11_EmptyPoolFallsBack ==
  (/\ call.fn = "getRandomCountryFiltered"
   /\ ~\E c \in CountrySet :
         PassesFilter(c, call.filter) /\ c.code # call.excludeCode)
  => call.res \in CountrySet

\* the exclusion empties the pool and the fallback returns the excluded entry
C11_Witness ==
  /\ call.fn = "getRandomCountryFiltered"
  /\ call.filter = [continent |-> "Europe", difficulty |-> "Mixed", type |-> "All"]
  /\ call.excludeCode = "IT"
  /\ call.r = 0
  /\ call.res.code = "IT"

(***************************************************************************)
(* Persistence                                                             *)
(***************************************************************************)
\* C12: a page load takes the daily state from the persisted blob when the
\* blob's key is the current reference date, and otherwise starts a fresh
\* in-progress state keyed to that date; hence a load while the daily round is
\* the current date's round leaves the daily state as it was before the load.
C12_ReloadRestoresDailyRound ==
  [][ ReloadStep =>
        LET today == FormatDate(now')
        IN  /\ dailyState' =
                 IF storage # NoBlob /\ storage.date = today
                   THEN [date |-> storage.date, guesses |-> storage.guesses,
                         isFinished |-> storage.isFinished, won |-> storage.won]
                   ELSE FreshState(today)
            /\ dailyState.date = today => dailyState' = dailyState ]_vars

\* the saved value is the text of a GameState: an object with a date, a
\* guess sequence and both flags
WellFormedBlob(blob) ==
  /\ blob.json = "object"
  /\ DOMAIN blob = StateFields \cup {"json"}

\* state is a fresh in-progress GameState keyed to date
IsFreshFor(state, date) ==
  /\ DOMAIN state = StateFields
  /\ state.date = date
  /\ state.guesses = <<>>
  /\ ~state.isFinished
  /\ ~state.won

\* C13: for every saved value that is not the text of a well-formed
\* GameState (no JSON, not an object, or an object lacking the guess sequence
\* or a flag), the daily state after loading is a fresh in-progress state
\* with zero guesses keyed to the current reference date.
C13_CorruptBlobLoadsFresh ==
  (call.fn = "loadDailyState" /\ ~WellFormedBlob(call.saved))
    => IsFreshFor(call.res, FormatDate(pdate))

(***************************************************************************)
(* Result formatter                                                        *)
(***************************************************************************)
\* the lines of a text: its parts between line feeds
SplitLines(text) ==
  LET feeds == {i \in 1..Len(text) : text[i] = "\n"}
      n == Cardinality(feeds)
      pos(j) == IF j = 0 THEN 0
                ELSE IF j = n + 1 THEN Len(text) + 1
                ELSE CHOOSE i \in feeds : Cardinality({k \in feeds : k < i}) = j - 1
  IN  [j \in 1..(n + 1) |-> SubSeq(text, pos(j - 1) + 1, pos(j) - 1)]

\* part occurs in line
Contains(line, part) ==
  \E i \in 0..(Len(line) - Len(part)) : SubSeq(line, i + 1, i + Len(part)) = part

IsDigit(c) == c \in {DigitChar[i] : i \in 1..10}

RECURSIVE ParseDigits(_)
\* the number a sequence of decimal digits denotes
ParseDigits(ds) ==
  IF Len(ds) = 0 THEN 0
  ELSE 10 * ParseDigits(SubSeq(ds, 1, Len(ds) - 1)) + DigitVal[ds[Len(ds)]]

\* five green squares, five red squares
SuccessMarker == <<"U+1F7E9", "U+1F7E9", "U+1F7E9", "U+1F7E9", "U+1F7E9">>
FailureMarker == <<"U+1F7E5", "U+1F7E5", "U+1F7E5", "U+1F7E5", "U+1F7E5">>

\* C14: the share text is title, outcome line, an empty line, one result line
\* per guess in guess order (success marker iff the guess is the target name
\* up to case), an empty line and two closing lines; for a won round with k
\* guesses the outcome line contains "k/6" and only the k-th result line is a
\* success marker; for a lost round it contains "X/6" and no result line is a
\* success marker; the daily title shows the day number, the ad-hoc title
\* shows no number.
C14_ShareTextLines ==
  call.fn = "generateShareGrid" =>
    LET lines == SplitLines(call.res)
        k == Len(call.guesses)
        Matches(i) == SameTextIgnoringCase(call.guesses[i], call.correctCountry)
        wonRound == /\ call.isWin
                    /\ k \in 1..6
                    /\ \A i \in 1..k : Matches(i) <=> i = k
        lostRound == /\ ~call.isWin
                     /\ k = 6
                     /\ \A i \in 1..k : ~Matches(i)
    IN  /\ Len(lines) = k + 6
        /\ \A i \in 1..k :
             lines[3 + i] = IF Matches(i) THEN SuccessMarker ELSE FailureMarker
        /\ \A j \in (1..Len(lines)) \ (4..(k + 3)) :
             lines[j] \notin {SuccessMarker, FailureMarker}
        /\ lines[3] = <<>>
        /\ wonRound =>
             /\ Contains(lines[2], <<DigitChar[k + 1], "/", "6">>)
             /\ \A i \in 1..k : lines[3 + i] = SuccessMarker <=> i = k
        /\ lostRound =>
             /\ Contains(lines[2], <<"X", "/", "6">>)
             /\ \A i \in 1..k : lines[3 + i] = FailureMarker
        /\ ~call.isInfinite =>
             /\ SelectSeq(lines[1], IsDigit) # <<>>
             /\ ParseDigits(SelectSeq(lines[1], IsDigit)) = getDayNumber(pdate)
        /\ call.isInfinite => SelectSeq(lines[1], IsDigit) = <<>>

\* a daily round won with the third guess, typed in capitals, shared on day 58
C14_Witness ==
  /\ call.fn = "generateShareGrid"
  /\ pdate = StartDate
  /\ ~call.isInfinite /\ call.isWin
  /\ Len(call.guesses) = 3
  /\ call.guesses[3] # call.correctCountry
  /\ SplitLines(call.res)[4] = FailureMarker
  /\ SplitLines(call.res)[6] = SuccessMarker
  /\ Contains(SplitLines(call.res)[1], <<"N", "o", ".", " ", "5", "8", " ">>)
  /\ Contains(SplitLines(call.res)[2], <<" ", "3", "/", "6", " ">>)

(***************************************************************************)
(* The two modes                                                           *)
(***************************************************************************)
\* C15: a guess submitted in one mode leaves the other mode's RoundState and
\* puzzle unchanged; starting an ad-hoc round and switching the mode flag
\* leave the daily RoundState and the daily puzzle unchanged; a rollover
\* check leaves the ad-hoc RoundState, the ad-hoc puzzle and the mode flag
\* unchanged.
C15_ModesAreIndependent ==
  [][ /\ GuessStep =>
           IF isInfiniteMode
             THEN UNCHANGED <<dailyState, dailyCountry, currentDay>>
             ELSE UNCHANGED <<infiniteState, infiniteCountry>>
      /\ lastOp'.op \in {"start", "mode", "back"} =>
           UNCHANGED <<dailyState, dailyCountry, currentDay>>
      /\ CheckStep =>
           UNCHANGED <<infiniteState, infiniteCountry, isInfiniteMode>> ]_vars

\* a guess has been recorded in the ad-hoc round while the daily round,
\* played before, keeps its guesses
C15_Witness ==
  /\ lastOp.op = "guess"
  /\ isInfiniteMode
  /\ Len(infiniteState.guesses) > 0
  /\ infiniteState.guesses[Len(infiniteState.guesses)] = lastOp.g
  /\ Len(dailyState.guesses) > 0
  /\ ~dailyState.isFinished

\* the RoundState the mode flag selects
ActiveRound == IF isInfiniteMode THEN infiniteState ELSE dailyState

\* C16: a guess submitted to an in-progress round leaves that round's
\* sequence equal to the previous sequence with the text appended; and no
\* step changes a round's sequence otherwise, except a wholesale replacement
\* (a rollover, a new ad-hoc round, a page load).
C16_GuessesAppendOnly ==
  [][ /\ (GuessStep /\ ~ActiveRound.isFinished /\ ~activeState(view).isFinished) =>
           ActiveRound'.guesses = ActiveRound.guesses \o <<lastOp'.g>>
      /\ \/ dailyState'.guesses = dailyState.guesses
         \/ GuessStep /\ dailyState'.guesses = dailyState.guesses \o <<lastOp'.g>>
         \/ CheckStep /\ dailyState' = FreshState(dailyState'.date)
         \/ ReloadStep
      /\ \/ infiniteState'.guesses = infiniteState.guesses
         \/ GuessStep /\ infiniteState'.guesses = infiniteState.guesses \o <<lastOp'.g>>
         \/ lastOp'.op \in {"start", "mode"} /\ infiniteState' = FreshState(INFINITE)
         \/ ReloadStep ]_vars

\* the texts of the reference dates the clock of the session can show
SessionDateTexts == {FormatDate(DateAfter(StartDate, i)) : i \in 0..MaxTicks}

\* the persisted blob, if present, is a daily RoundState
StorageIsDaily ==
  storage # NoBlob =>
    /\ WellFormedBlob(storage)
    /\ storage.date # INFINITE
    /\ storage.date \in SessionDateTexts

\* C17: the persisted blob, if present, is always a daily RoundState (keyed
\* to a reference date, never to 'infinite'); each request for a new ad-hoc
\* puzzle sets the ad-hoc state to in progress with zero guesses; after a
\* page load the ad-hoc state is in progress with zero guesses.
C17_AdHocNeverPersisted ==
  /\ StorageIsDaily
  /\ [][ /\ StorageIsDaily'
         /\ lastOp'.op \in {"start", "mode"} => infiniteState' = FreshState(INFINITE)
         /\ ReloadStep => infiniteState' = FreshState(INFINITE) ]_vars

\* an ad-hoc round with two guesses is being played while the blob holds the
\* daily round with its one guess
C17_Witness ==
  /\ lastOp.op = "guess"
  /\ isInfiniteMode
  /\ Len(infiniteState.guesses) = 2
  /\ storage # NoBlob
  /\ Len(storage.guesses) = 1
  /\ storage.guesses = dailyState.guesses

\* the step starts a new ad-hoc round
StartStep == lastOp'.op \in {"start", "mode"}

\* C18: every ad-hoc round started in the application, from daily mode or
\* from an ongoing ad-hoc round, gets a puzzle other than the current daily
\* country whenever some entry other than the daily country satisfies the
\* active filters.
C18_NewRoundAvoidsDailyCountry ==
  [][ (/\ StartStep
       /\ \E c \in CountrySet :
            PassesFilter(c, activeFilter') /\ c.code # dailyCountry.code)
      => infiniteCountry'.code # dailyCountry.code ]_vars

(***************************************************************************)
(* Daily data                                                              *)
(***************************************************************************)
\* the reference dates the clock of the session can show
SessionDates == {DateAfter(StartDate, i) : i \in 0..MaxTicks}

\* C19: in every reachable state the stored day number, the daily puzzle and
\* the key of the daily RoundState refer to one reference day: the daily
\* puzzle is dailyPuzzle(stored day number) and the key is the reference
\* date whose day number is the stored one.
C19_DailyDataConsistent ==
  /\ dailyCountry = PoolEntry(currentDay)
  /\ \E day \in SessionDates :
       /\ getDayNumber(day) = currentDay
       /\ dailyState.date = FormatDate(day)

\* C20: whenever the share text is generated for the daily round, the number
\* in its title is the day number of the reference date the shared round is
\* keyed to, and the shared puzzle is the daily puzzle of that number.
C20_ShareTitleIsRoundDay ==
  (call.fn = "handleShare" /\ ~call.isInfinite) =>
    LET title == SplitLines(call.res)[1]
        number == ParseDigits(SelectSeq(title, IsDigit))
    IN  /\ \E day \in SessionDates :
             FormatDate(day) = call.key /\ getDayNumber(day) = number
        /\ PoolEntry(number).name = call.correctCountry

====
